---- MODULE Spec2Model ----
(***************************************************************************)
(* Model of django_tenants/postgresql_backend/introspection.py:            *)
(* DatabaseSchemaIntrospection, the schema-scoped catalog introspection of  *)
(* django-tenants.  The state is the PostgreSQL catalog the cursor reads    *)
(* (pg_class with its attributes, pg_constraint, pg_index), the active      *)
(* schema of the connection, and the value the last introspection call      *)
(* returned (or the error it raised).  Every SQL statement of the class is  *)
(* an operator that computes the rows the statement selects from the        *)
(* catalog; every method is an operator over those rows and an action that  *)
(* stores what the method returns.                                          *)
(***************************************************************************)
EXTENDS Integers, Sequences, FiniteSets, TLC

VARIABLES
    schema_name,        \* self.connection.schema_name
    pg_class,           \* tables and views, in heap order, each with its columns
    pg_constraint,      \* constraints, in heap order
    pg_index,           \* indexes (with the pg_class row of the index), in heap order
    description_bytes,  \* whether the driver reports column names as bytes
    result              \* the last call: [op, table, out]

vars == <<schema_name, pg_class, pg_constraint, pg_index, description_bytes, result>>

----------------------------------------------------------------------------
(* Values *)

\* Python's None and SQL's NULL in a slot that otherwise holds a string.
None == "None"
\* Python's None and SQL's NULL in a slot that otherwise holds a tuple or a list.
NoneT == <<>>

Namespaces == {"public", "tenant_a", "tenant_b"}
TableNames == {"orders", "customers"}

Range(s) == {s[i] : i \in 1..Len(s)}

Map(s, F(_)) == [i \in 1..Len(s) |-> F(s[i])]

RECURSIVE Flatten(_)
Flatten(ss) == IF ss = <<>> THEN <<>> ELSE Head(ss) \o Flatten(Tail(ss))

\* All sequences over S of length at most n.
SeqsUpTo(S, n) == UNION {[1..k -> S] : k \in 0..n}

\* All orderings of a finite set, as sequences.
Orderings(S) ==
    {s \in [1..Cardinality(S) -> S] : \A i, j \in 1..Cardinality(S) : s[i] = s[j] => i = j}

\* A Python dict is a function; d[k] = v adds or overwrites one key.
EmptyDict == [k \in {} |-> None]
DictSet(d, key, v) == [k \in DOMAIN d \cup {key} |-> IF k = key THEN v ELSE d[k]]

\* What a call hands back: a value, or the exception that left it.
Return(v) == [raised |-> None, value |-> v]
Raise(e) == [raised |-> e]

----------------------------------------------------------------------------
(* The cursor *)

\* The catalog a statement runs against.
Catalog == [pg_class |-> pg_class, pg_constraint |-> pg_constraint, pg_index |-> pg_index]

\* The search path the tenant switch leaves on the connection: the active
\* schema, then the shared one.
search_path(schema) == IF schema = "public" THEN <<"public">> ELSE <<schema, "public">>

ClassRows(db, ns, rel) ==
    SelectSeq(db.pg_class, LAMBDA c : c.nspname = ns /\ c.relname = rel)

\* The relation an unqualified name resolves to: the first schema of the
\* search path that holds it (a sequence of zero or one pg_class rows).
ResolveRelation(db, schema, rel) ==
    LET path == search_path(schema)
        hits == SelectSeq(path, LAMBDA ns : ClassRows(db, ns, rel) # <<>>)
    IN IF hits = <<>> THEN <<>> ELSE ClassRows(db, hits[1], rel)

\* pg_catalog.pg_table_is_visible(c.oid): c is what its unqualified name resolves to.
pg_table_is_visible(db, schema, c) == ResolveRelation(db, schema, c.relname) = <<c>>

\* The top level of a FROM clause parses when it starts with a table reference,
\* every comma is followed by a table reference, and every JOIN follows a table
\* reference or another JOIN (PostgreSQL: from_list is table_ref {"," table_ref},
\* and JOIN is a reserved word that cannot begin a table_ref).
FromListParses(toks) ==
    /\ toks # <<>>
    /\ toks[1] = "table_ref"
    /\ \A i \in 1..Len(toks) :
          /\ toks[i] = "," => i < Len(toks) /\ toks[i + 1] = "table_ref"
          /\ toks[i] = "JOIN" => i > 1 /\ toks[i - 1] # ","

\* cursor.execute(sql, params); cursor.fetchall(): the rows, or the error of a
\* statement the server rejects.
Execute(from_clause, rows) ==
    IF FromListParses(from_clause) THEN Return(rows) ELSE Raise("ProgrammingError")

----------------------------------------------------------------------------
(* get_table_list *)

\* self.ignored_tables of the backend.
ignored_tables == {"spatial_ref_sys"}

\* FROM pg_catalog.pg_class c LEFT JOIN pg_catalog.pg_namespace n ON ...
get_table_list_from == <<"table_ref", "JOIN">>

\* SELECT c.relname, c.relkind ... WHERE c.relkind IN ('r', 'v', '')
\*   AND n.nspname = '<schema>' AND pg_catalog.pg_table_is_visible(c.oid)
get_table_list_query(db, schema) ==
    Execute(get_table_list_from,
        Map(SelectSeq(db.pg_class, LAMBDA c :
                /\ c.relkind \in {"r", "v", ""}
                /\ c.nspname = schema
                /\ pg_table_is_visible(db, schema, c)),
            LAMBDA c : <<c.relname, c.relkind>>))

\* {'r': 't', 'v': 'v'}.get(kind)
KindGet(kind) == CASE kind = "r" -> "t" [] kind = "v" -> "v" [] OTHER -> None

TableInfo(name, type) == [name |-> name, type |-> type]

get_table_list(db, schema) ==
    LET q == get_table_list_query(db, schema)
    IN IF q.raised # None THEN q
       ELSE Return(Map(SelectSeq(q.value, LAMBDA row : row[1] \notin ignored_tables),
                       LAMBDA row : TableInfo(row[1], KindGet(row[2]))))

----------------------------------------------------------------------------
(* get_table_description *)

\* A name as the driver or the server hands it over: its encoding and its text.
Text(s) == <<"text", s>>
Bytes(s) == <<"bytes", s>>

\* django.utils.encoding.force_text: bytes are decoded, text stays.
force_text(x) == <<"text", x[2]>>

\* The driver's description of a column of each type: type_code, display_size,
\* internal_size, precision, scale, null_ok.
TypeDescription(typ) ==
    CASE typ = "int4" -> <<"23", None, "4", None, None, None>>
      [] typ = "numeric" -> <<"1700", None, "-1", "10", "2", None>>
      [] OTHER -> <<"1043", None, "20", None, None, None>>

\* FROM information_schema.columns
information_schema_columns_from == <<"table_ref">>

\* SELECT column_name, is_nullable, column_default FROM information_schema.columns
\* WHERE table_schema = %s and table_name = %s
information_schema_columns_query(db, schema, table_name) ==
    Execute(information_schema_columns_from,
        Flatten(Map(ClassRows(db, schema, table_name), LAMBDA c :
            Map(c.atts, LAMBDA a : <<Text(a.attname), a.is_nullable, a.column_default>>))))

\* field_map = {line[0]: line[1:] for line in cursor.fetchall()}
FieldMap(rows) ==
    [k \in {r[1] : r \in Range(rows)} |->
        LET last == CHOOSE i \in 1..Len(rows) :
                        /\ rows[i][1] = k
                        /\ \A j \in 1..Len(rows) : rows[j][1] = k => j <= i
        IN <<rows[last][2], rows[last][3]>>]

\* FROM <quoted table name>
select_star_from == <<"table_ref">>

\* cursor.description after SELECT * FROM "<table_name>" LIMIT 1: one 7-tuple
\* per column of the relation the name resolves to; the statement fails when
\* the name resolves to nothing.
select_star_description(db, schema, table_name, bytes) ==
    LET rel == ResolveRelation(db, schema, table_name)
    IN IF rel = <<>> THEN Raise("ProgrammingError")
       ELSE Execute(select_star_from,
                Map(rel[1].atts, LAMBDA a :
                    <<IF bytes THEN Bytes(a.attname) ELSE Text(a.attname)>>
                        \o TypeDescription(a.typ)))

\* FieldInfo(*t): the named tuple of eight fields, filled by position.
FieldInfo(t) ==
    [name |-> t[1], type_code |-> t[2], display_size |-> t[3], internal_size |-> t[4],
     precision |-> t[5], scale |-> t[6], null_ok |-> t[7], default |-> t[8]]

\* DescribeLine with nullability read from the driver's own null_ok (line[6])
\* instead of the information_schema row.
DescribeLineDriverNullOk(field_map, line) ==
    FieldInfo(<<force_text(line[1])>> \o SubSeq(line, 2, 6)
                \o <<line[7] = "YES", field_map[force_text(line[1])][2]>>)

\* One element of the list comprehension; field_map[name] is defined only for
\* the keys of field_map.
DescribeLine(field_map, line) ==
    FieldInfo(<<force_text(line[1])>> \o SubSeq(line, 2, 6)
                \o <<field_map[force_text(line[1])][1] = "YES",
                     field_map[force_text(line[1])][2]>>)

get_table_description(db, schema, table_name, bytes) ==
    LET q1 == information_schema_columns_query(db, schema, table_name)
    IN IF q1.raised # None THEN q1
       ELSE LET field_map == FieldMap(q1.value)
                q2 == select_star_description(db, schema, table_name, bytes)
            IN IF q2.raised # None THEN q2
               ELSE IF \E i \in 1..Len(q2.value) :
                            force_text(q2.value[i][1]) \notin DOMAIN field_map
                    THEN Raise("KeyError")
                    ELSE Return(Map(q2.value, LAMBDA line : DescribeLine(field_map, line)))

----------------------------------------------------------------------------
(* Catalog lookups the statements share *)

\* pg_attribute rows of relation (ns, rel) with the given attnum: the names
\* (zero or one; attnum 0 marks an expression and names no attribute).
AttNames(db, ns, rel, attnum) ==
    Flatten(Map(ClassRows(db, ns, rel), LAMBDA c :
        IF attnum \in 1..Len(c.atts) THEN <<c.atts[attnum].attname>> ELSE <<>>))

\* The value a LEFT JOIN leaves in a column: the match, or NULL.
OrNull(hits) == IF hits = <<>> THEN None ELSE hits[1]

\* The first element of an array, NULL when there is none (conkey[1], indkey[0]).
FirstKey(key) == IF key = <<>> THEN 0 ELSE key[1]

----------------------------------------------------------------------------
(* get_indexes *)

\* FROM pg_catalog.pg_class c, INNER JOIN pg_catalog.pg_index idx ON ...
\*   INNER JOIN pg_class c2 ... INNER JOIN pg_attribute attr ... INNER JOIN pg_namespace n ...
_get_indexes_query_from == <<"table_ref", ",", "JOIN", "JOIN", "JOIN", "JOIN">>

\* The text form of an int2vector: its numbers separated by single spaces.
RECURSIVE Int2VectorOut(_)
Int2VectorOut(v) ==
    IF v = <<>> THEN <<>>
    ELSE IF Len(v) = 1 THEN <<ToString(v[1])>>
    ELSE <<ToString(v[1]), " ">> \o Int2VectorOut(Tail(v))

\* The rows the joins and the WHERE clause of _get_indexes_query select:
\* attr.attname, idx.indkey, idx.indisunique, idx.indisprimary, one row per
\* index of the table whose first key is a column.
_get_indexes_rows(db, schema, table_name) ==
    Flatten(Map(db.pg_index, LAMBDA idx :
        IF idx.relname = table_name /\ idx.nspname = schema
        THEN Map(AttNames(db, idx.nspname, idx.relname, FirstKey(idx.indkey)), LAMBDA attname :
                <<attname, Int2VectorOut(idx.indkey), idx.indisunique, idx.indisprimary>>)
        ELSE <<>>))

_get_indexes_query(db, schema, table_name) ==
    Execute(_get_indexes_query_from, _get_indexes_rows(db, schema, table_name))

\* IndexesStep without the test that skips the rows of multi-column indexes.
IndexesStepNoSkip(indexes, row) ==
    LET i0 == IF row[1] \notin DOMAIN indexes
              THEN DictSet(indexes, row[1], [primary_key |-> FALSE, unique |-> FALSE])
              ELSE indexes
        i1 == IF row[4] THEN DictSet(i0, row[1], [i0[row[1]] EXCEPT !.primary_key = TRUE])
              ELSE i0
    IN IF row[3] THEN DictSet(i1, row[1], [i1[row[1]] EXCEPT !.unique = TRUE])
       ELSE i1

\* The body of the loop over the rows, for one row.
IndexesStep(indexes, row) ==
    IF " " \in Range(row[2]) THEN indexes
    ELSE LET i0 == IF row[1] \notin DOMAIN indexes
                   THEN DictSet(indexes, row[1], [primary_key |-> FALSE, unique |-> FALSE])
                   ELSE indexes
             i1 == IF row[4] THEN DictSet(i0, row[1], [i0[row[1]] EXCEPT !.primary_key = TRUE])
                   ELSE i0
         IN IF row[3] THEN DictSet(i1, row[1], [i1[row[1]] EXCEPT !.unique = TRUE])
            ELSE i1

RECURSIVE IndexesLoop(_, _)
IndexesLoop(indexes, rows) ==
    IF rows = <<>> THEN indexes
    ELSE IndexesLoop(IndexesStep(indexes, Head(rows)), Tail(rows))

\* The method from cursor.fetchall() on; q is what cursor.execute left.
IndexesOf(q) == IF q.raised # None THEN q ELSE Return(IndexesLoop(EmptyDict, q.value))

get_indexes(db, schema, table_name) == IndexesOf(_get_indexes_query(db, schema, table_name))

----------------------------------------------------------------------------
(* get_relations *)

\* FROM pg_constraint con LEFT JOIN pg_class c1 ... LEFT JOIN pg_namespace n ...
\*   LEFT JOIN pg_class c2 ... LEFT JOIN pg_attribute a1 ... LEFT JOIN pg_attribute a2 ...
get_relations_from == <<"table_ref", "JOIN", "JOIN", "JOIN", "JOIN", "JOIN">>

\* get_relations_query with one row for every column pair of a foreign key,
\* not only for the first.
get_relations_query_every_pair(db, schema, table_name) ==
    Execute(get_relations_from,
        Flatten(Map(db.pg_constraint, LAMBDA con :
            IF /\ con.relname = table_name
               /\ con.nspname = schema
               /\ ClassRows(db, con.nspname, con.relname) # <<>>
               /\ con.contype = "f"
            THEN [k \in 1..Len(con.conkey) |->
                    <<OrNull(Map(ClassRows(db, con.confnsp, con.confrel), LAMBDA c : c.relname)),
                      OrNull(AttNames(db, con.nspname, con.relname, con.conkey[k])),
                      OrNull(AttNames(db, con.confnsp, con.confrel, con.confkey[k]))>>]
            ELSE <<>>)))

\* SELECT c2.relname, a1.attname, a2.attname ... WHERE c1.relname = %s
\*   and n.nspname = %s AND con.contype = 'f'
get_relations_query(db, schema, table_name) ==
    Execute(get_relations_from,
        Flatten(Map(db.pg_constraint, LAMBDA con :
            IF /\ con.relname = table_name
               /\ con.nspname = schema
               /\ ClassRows(db, con.nspname, con.relname) # <<>>
               /\ con.contype = "f"
            THEN << <<OrNull(Map(ClassRows(db, con.confnsp, con.confrel), LAMBDA c : c.relname)),
                      OrNull(AttNames(db, con.nspname, con.relname, FirstKey(con.conkey))),
                      OrNull(AttNames(db, con.confnsp, con.confrel, FirstKey(con.confkey)))>> >>
            ELSE <<>>)))

\* relations[row[1]] = (row[2], row[0]), row after row.
RECURSIVE RelationsLoop(_, _)
RelationsLoop(relations, rows) ==
    IF rows = <<>> THEN relations
    ELSE RelationsLoop(DictSet(relations, Head(rows)[2], <<Head(rows)[3], Head(rows)[1]>>),
                       Tail(rows))

get_relations(db, schema, table_name) ==
    LET q == get_relations_query(db, schema, table_name)
    IN IF q.raised # None THEN q ELSE Return(RelationsLoop(EmptyDict, q.value))

----------------------------------------------------------------------------
(* get_key_columns *)

\* information_schema.constraint_column_usage: for a foreign key the referenced
\* columns, for the other constraints the constrained columns.
constraint_column_usage(db) ==
    Flatten(Map(db.pg_constraint, LAMBDA con :
        IF con.contype = "f"
        THEN Flatten(Map(con.confkey, LAMBDA k :
                Map(AttNames(db, con.confnsp, con.confrel, k), LAMBDA a :
                    [constraint_schema |-> con.nspname, constraint_name |-> con.conname,
                     table_name |-> con.confrel, column_name |-> a])))
        ELSE Flatten(Map(con.conkey, LAMBDA k :
                Map(AttNames(db, con.nspname, con.relname, k), LAMBDA a :
                    [constraint_schema |-> con.nspname, constraint_name |-> con.conname,
                     table_name |-> con.relname, column_name |-> a])))))

\* information_schema.key_column_usage: the key columns of primary-key, unique
\* and foreign-key constraints.
key_column_usage(db) ==
    Flatten(Map(db.pg_constraint, LAMBDA con :
        IF con.contype \in {"p", "u", "f"}
        THEN Flatten(Map(con.conkey, LAMBDA k :
                Map(AttNames(db, con.nspname, con.relname, k), LAMBDA a :
                    [constraint_schema |-> con.nspname, constraint_name |-> con.conname,
                     table_name |-> con.relname, column_name |-> a])))
        ELSE <<>>))

ConstraintTypeName(contype) ==
    CASE contype = "p" -> "PRIMARY KEY" [] contype = "u" -> "UNIQUE"
      [] contype = "f" -> "FOREIGN KEY" [] OTHER -> "CHECK"

\* information_schema.table_constraints
table_constraints(db) ==
    Map(db.pg_constraint, LAMBDA con :
        [constraint_schema |-> con.nspname, constraint_name |-> con.conname,
         table_schema |-> con.nspname, table_name |-> con.relname,
         constraint_type |-> ConstraintTypeName(con.contype)])

\* FROM information_schema.constraint_column_usage ccu
\*   LEFT JOIN information_schema.key_column_usage kcu ON ...
\*   LEFT JOIN information_schema.table_constraints tc ON ...
get_key_columns_from == <<"table_ref", "JOIN", "JOIN">>

\* SELECT kcu.column_name, ccu.table_name, ccu.column_name ...
\* WHERE kcu.table_name = %s AND tc.constraint_type = 'FOREIGN KEY' AND tc.table_schema = %s
get_key_columns_query(db, schema, table_name) ==
    Execute(get_key_columns_from,
        Flatten(Map(constraint_column_usage(db), LAMBDA ccu :
            Flatten(Map(key_column_usage(db), LAMBDA kcu :
                Flatten(Map(table_constraints(db), LAMBDA tc :
                    IF /\ kcu.constraint_schema = ccu.constraint_schema
                       /\ kcu.constraint_name = ccu.constraint_name
                       /\ tc.constraint_schema = ccu.constraint_schema
                       /\ tc.constraint_name = ccu.constraint_name
                       /\ kcu.table_name = table_name
                       /\ tc.constraint_type = "FOREIGN KEY"
                       /\ tc.table_schema = schema
                    THEN << <<kcu.column_name, ccu.table_name, ccu.column_name>> >>
                    ELSE <<>>)))))))

\* key_columns.extend(cursor.fetchall())
get_key_columns(db, schema, table_name) ==
    LET q == get_key_columns_query(db, schema, table_name)
    IN IF q.raised # None THEN q ELSE Return(<<>> \o q.value)

----------------------------------------------------------------------------
(* get_constraints *)

\* django.db.models.indexes.Index.suffix
IndexSuffix == "idx"

\* FROM pg_constraint AS c JOIN pg_class AS cl ... JOIN pg_namespace AS ns ...
constraints_from == <<"table_ref", "JOIN", "JOIN">>

\* array(SELECT attname FROM (SELECT unnest(c.conkey) AS colid, generate_series(...)
\*   AS arridx) AS cols JOIN pg_attribute AS ca ON cols.colid = ca.attnum
\*   WHERE ca.attrelid = c.conrelid ORDER BY cols.arridx)
ConstraintColumns(db, con) ==
    Flatten(Map(con.conkey, LAMBDA colid : AttNames(db, con.nspname, con.relname, colid)))

\* SELECT fkc.relname || '.' || fka.attname ... WHERE fka.attrelid = c.confrelid
\*   AND fka.attnum = c.confkey[1]: the text as its pieces, NULL when no row.
UsedCols(db, con) ==
    Flatten(Map(ClassRows(db, con.confnsp, con.confrel), LAMBDA fkc :
        Flatten(Map(AttNames(db, con.confnsp, con.confrel, FirstKey(con.confkey)), LAMBDA fka :
            <<fkc.relname, ".", fka>>))))

\* tuple(used_cols.split(".", 1)): the text before the first "." and the text
\* after it (names here hold no "." themselves, so each side is one piece).
SplitOnce(pieces) ==
    LET dot == CHOOSE i \in 1..Len(pieces) :
                   pieces[i] = "." /\ \A j \in 1..(i - 1) : pieces[j] # "."
    IN SubSeq(pieces, 1, dot - 1) \o SubSeq(pieces, dot + 1, Len(pieces))

\* The namespace the first statement of get_constraints is bound to.
ConstraintsNamespace(schema) == "public"

\* The rows of the first statement: conname, columns, contype, used_cols, reloptions
\* of every constraint WHERE ns.nspname = %s AND cl.relname = %s.
constraints_query(db, schema, table_name) ==
    Execute(constraints_from,
        Flatten(Map(db.pg_constraint, LAMBDA con :
            IF con.nspname = ConstraintsNamespace(schema) /\ con.relname = table_name
            THEN Map(ClassRows(db, con.nspname, con.relname), LAMBDA cl :
                    <<con.conname, ConstraintColumns(db, con), con.contype,
                      UsedCols(db, con), cl.reloptions>>)
            ELSE <<>>)))

\* The dict stored for one constraint row.
ConstraintEntry(row) ==
    [columns |-> row[2],
     primary_key |-> row[3] = "p",
     unique |-> row[3] \in {"p", "u"},
     foreign_key |-> IF row[3] = "f" THEN SplitOnce(row[4]) ELSE NoneT,
     check |-> row[3] = "c",
     index |-> FALSE,
     definition |-> NoneT,
     options |-> row[5]]

RECURSIVE ConstraintsLoop(_, _)
ConstraintsLoop(constraints, rows) ==
    IF rows = <<>> THEN constraints
    ELSE ConstraintsLoop(DictSet(constraints, Head(rows)[1], ConstraintEntry(Head(rows))),
                         Tail(rows))

\* FROM (SELECT ... ) s2
indexes_from == <<"table_ref">>

\* Ordering with every set option bit read as DESC, not only the lowest.
OrderingAnyBit(amname, option) ==
    IF amname = "btree" THEN (IF option # 0 THEN "DESC" ELSE "ASC") ELSE None

\* CASE am.amname WHEN 'btree' THEN CASE (option & 1) WHEN 1 THEN 'DESC' ELSE 'ASC' END END
Ordering(amname, option) ==
    IF amname = "btree" THEN (IF option % 2 = 1 THEN "DESC" ELSE "ASC") ELSE None

\* CASE WHEN idx.indexprs IS NOT NULL THEN pg_get_indexdef(idx.indexrelid) END
ExprDef(idx) ==
    IF 0 \in Range(idx.indkey)
    THEN <<"CREATE INDEX", idx.indexname, "ON", idx.nspname, idx.relname, "USING", idx.amname>>
    ELSE NoneT

\* Whether the inner WHERE c.relname = %s keeps the rows of an index.
IndexSelected(db, schema, table_name, idx) ==
    idx.relname = table_name /\ ClassRows(db, idx.nspname, idx.relname) # <<>>

\* The rows of the inner SELECT of the second statement, in the order
\* row_number() OVER () numbers them: index after index in heap order, the
\* keys of one index in the order unnest(i.indkey) yields them.
IndexKeyRows(db, schema, table_name) ==
    Flatten(Map(db.pg_index, LAMBDA idx :
        IF IndexSelected(db, schema, table_name, idx)
        THEN [k \in 1..Len(idx.indkey) |->
                [indexname |-> idx.indexname,
                 indisunique |-> idx.indisunique,
                 indisprimary |-> idx.indisprimary,
                 amname |-> idx.amname,
                 exprdef |-> ExprDef(idx),
                 attoptions |-> idx.reloptions,
                 attname |-> OrNull(AttNames(db, idx.nspname, idx.relname, idx.indkey[k])),
                 ordering |-> Ordering(idx.amname, idx.indoption[k])]]
        ELSE <<>>))

\* GROUP BY indexname, indisunique, indisprimary, amname, exprdef, attoptions
GroupKey(r) ==
    <<r.indexname, r.indisunique, r.indisprimary, r.amname, r.exprdef, r.attoptions>>

IndexGroups(db, schema, table_name) ==
    {GroupKey(r) : r \in Range(IndexKeyRows(db, schema, table_name))}

\* One output row of the second statement: indexname, array_agg(attname ORDER BY
\* rnum), indisunique, indisprimary, array_agg(ordering ORDER BY rnum), amname,
\* exprdef, attoptions.
IndexRow(db, schema, table_name, g) ==
    LET members == SelectSeq(IndexKeyRows(db, schema, table_name),
                             LAMBDA r : GroupKey(r) = g)
    IN <<g[1], Map(members, LAMBDA r : r.attname), g[2], g[3],
         Map(members, LAMBDA r : r.ordering), g[4], g[5], g[6]>>

\* The second statement; SQL leaves the order of the groups open, so the
\* caller passes the order the server happens to produce.
indexes_query(db, schema, table_name, group_order) ==
    Execute(indexes_from, Map(group_order, LAMBDA g : IndexRow(db, schema, table_name, g)))

\* The dict stored for one index row.
IndexEntry(row) ==
    [columns |-> IF row[2] # <<None>> THEN row[2] ELSE <<>>,
     orders |-> IF row[5] # <<None>> THEN row[5] ELSE <<>>,
     primary_key |-> row[4],
     unique |-> row[3],
     foreign_key |-> NoneT,
     check |-> FALSE,
     index |-> TRUE,
     type |-> IF row[6] = "btree" THEN IndexSuffix ELSE row[6],
     definition |-> row[7],
     options |-> row[8]]

\* MergeIndexRow without the test for a constraint of the same name.
MergeIndexRowOverwrite(constraints, row) == DictSet(constraints, row[1], IndexEntry(row))

\* if index not in constraints: constraints[index] = {...}
MergeIndexRow(constraints, row) ==
    IF row[1] \notin DOMAIN constraints
    THEN DictSet(constraints, row[1], IndexEntry(row))
    ELSE constraints

RECURSIVE IndexesMergeLoop(_, _)
IndexesMergeLoop(constraints, rows) ==
    IF rows = <<>> THEN constraints
    ELSE IndexesMergeLoop(MergeIndexRow(constraints, Head(rows)), Tail(rows))

get_constraints(db, schema, table_name, group_order) ==
    LET q1 == constraints_query(db, schema, table_name)
    IN IF q1.raised # None THEN q1
       ELSE LET constraints == ConstraintsLoop(EmptyDict, q1.value)
                q2 == indexes_query(db, schema, table_name, group_order)
            IN IF q2.raised # None THEN q2
               ELSE Return(IndexesMergeLoop(constraints, q2.value))

----------------------------------------------------------------------------
(* The catalogs the cursor may be connected to *)

MaxDDL == 2     \* statements that built the constraints and indexes
MaxRels == 2    \* relations in the catalogs of the table listing
MaxCols == 2    \* columns of a described table
MaxIndexes == 2 \* indexes in the catalogs of the index rows

NamespaceOrder == <<"public", "tenant_a", "tenant_b">>

\* The two tables every populated schema holds, each with columns a and b.
TableAtts ==
    <<[attname |-> "a", is_nullable |-> "NO", column_default |-> "nextval", typ |-> "int4"],
      [attname |-> "b", is_nullable |-> "YES", column_default |-> None, typ |-> "numeric"]>>

TableRow(ns, rel) ==
    [nspname |-> ns, relname |-> rel, relkind |-> "r", reloptions |-> NoneT, atts |-> TableAtts]

ObjNames == {"k1", "k2"}

\* ALTER TABLE orders ADD CONSTRAINT ...: primary key (b, a); unique (a);
\* foreign key (b, a) references customers (a, b); check on b.
ConstraintShapes ==
    {[contype |-> "p", conkey |-> <<2, 1>>, confrel |-> None, confkey |-> <<>>],
     [contype |-> "u", conkey |-> <<1>>, confrel |-> None, confkey |-> <<>>],
     [contype |-> "f", conkey |-> <<2, 1>>, confrel |-> "customers", confkey |-> <<1, 2>>],
     [contype |-> "c", conkey |-> <<2>>, confrel |-> None, confkey |-> <<>>]}

\* Foreign keys of one and of two columns, to either table, and a primary key.
RelationShapes ==
    {[contype |-> "f", conkey |-> k[1], confrel |-> rel, confkey |-> k[2]] :
        k \in {<< <<1>>, <<2>> >>, << <<2>>, <<1>> >>, << <<1, 2>>, <<2, 1>> >>},
        rel \in TableNames}
    \cup {[contype |-> "p", conkey |-> <<1>>, confrel |-> None, confkey |-> <<>>]}

\* CREATE INDEX ... ON orders: btree (b DESC, a) with a storage option; unique
\* btree (a NULLS FIRST); hash (a); gist (a, b); btree on an expression.
IndexShapes ==
    {[amname |-> "btree", indkey |-> <<2, 1>>, indoption |-> <<3, 0>>, indisunique |-> FALSE,
      reloptions |-> <<"fillfactor=70">>],
     [amname |-> "btree", indkey |-> <<1>>, indoption |-> <<2>>, indisunique |-> TRUE,
      reloptions |-> NoneT],
     [amname |-> "hash", indkey |-> <<1>>, indoption |-> <<0>>, indisunique |-> FALSE,
      reloptions |-> NoneT],
     [amname |-> "gist", indkey |-> <<1, 2>>, indoption |-> <<0, 0>>, indisunique |-> FALSE,
      reloptions |-> NoneT],
     [amname |-> "btree", indkey |-> <<0>>, indoption |-> <<0>>, indisunique |-> FALSE,
      reloptions |-> NoneT]}

ConstraintStatements(shapes) ==
    {[stmt |-> "constraint", nspname |-> ns, name |-> n, shape |-> sh] :
        ns \in Namespaces, n \in ObjNames, sh \in shapes}

IndexStatements ==
    {[stmt |-> "index", nspname |-> ns, name |-> n, shape |-> sh] :
        ns \in Namespaces, n \in ObjNames, sh \in IndexShapes}

\* Whether a statement leaves an index behind: CREATE INDEX does, and so do
\* the primary-key and unique constraints (their backing index has their name).
MakesIndex(st) == st.stmt = "index" \/ st.shape.contype \in {"p", "u"}

\* What PostgreSQL accepts: index names are unique in a schema, constraint
\* names on a table, and a table has one primary key.
ValidScript(script) ==
    \A i, j \in 1..Len(script) :
        (i # j /\ script[i].nspname = script[j].nspname) =>
            /\ ~(MakesIndex(script[i]) /\ MakesIndex(script[j])
                 /\ script[i].name = script[j].name)
            /\ ~(script[i].stmt = "constraint" /\ script[j].stmt = "constraint"
                 /\ (script[i].name = script[j].name
                     \/ (script[i].shape.contype = "p" /\ script[j].shape.contype = "p")))

\* The statements of a set, one after the other in a fixed order.
RECURSIVE SetToSeq(_)
SetToSeq(S) ==
    IF S = {} THEN <<>>
    ELSE LET x == CHOOSE y \in S : TRUE IN <<x>> \o SetToSeq(S \ {x})

ConstraintAndIndexMenu == SetToSeq(ConstraintStatements(ConstraintShapes) \cup IndexStatements)
RelationMenu == SetToSeq(ConstraintStatements(RelationShapes))

\* The histories of at most MaxDDL different statements of a menu that
\* PostgreSQL accepts, the statements of one history in the order of the menu.
Scripts(menu) ==
    {sc \in {[i \in 1..Len(pick) |-> menu[pick[i]]] :
                pick \in {x \in SeqsUpTo(1..Len(menu), MaxDDL) :
                            \A i \in 1..(Len(x) - 1) : x[i] < x[i + 1]}} :
        ValidScript(sc)}

ScriptConstraints(script) ==
    Flatten(Map(script, LAMBDA st :
        IF st.stmt = "constraint"
        THEN <<[nspname |-> st.nspname, relname |-> "orders", conname |-> st.name,
                contype |-> st.shape.contype, conkey |-> st.shape.conkey,
                confnsp |-> IF st.shape.contype = "f" THEN st.nspname ELSE None,
                confrel |-> st.shape.confrel, confkey |-> st.shape.confkey]>>
        ELSE <<>>))

ScriptIndexes(script) ==
    Flatten(Map(script, LAMBDA st :
        IF st.stmt = "index"
        THEN <<[nspname |-> st.nspname, relname |-> "orders", indexname |-> st.name,
                indkey |-> st.shape.indkey, indoption |-> st.shape.indoption,
                indisunique |-> st.shape.indisunique, indisprimary |-> FALSE,
                amname |-> st.shape.amname, reloptions |-> st.shape.reloptions]>>
        ELSE IF MakesIndex(st)
        THEN <<[nspname |-> st.nspname, relname |-> "orders", indexname |-> st.name,
                indkey |-> st.shape.conkey,
                indoption |-> [k \in 1..Len(st.shape.conkey) |-> 0],
                indisunique |-> TRUE, indisprimary |-> st.shape.contype = "p",
                amname |-> "btree", reloptions |-> NoneT]>>
        ELSE <<>>))

\* The tables: orders and customers in every schema a statement ran in.
ScriptClasses(script) ==
    Flatten(Map(NamespaceOrder, LAMBDA ns :
        IF \E i \in 1..Len(script) : script[i].nspname = ns
        THEN <<TableRow(ns, "orders"), TableRow(ns, "customers")>>
        ELSE <<>>))

\* Relations for the table listing: tables, views, the kind '' the listing's
\* filter admits, and sequences, which it does not.
ListedRelations ==
    {[nspname |-> ns, relname |-> rel, relkind |-> kind, reloptions |-> NoneT,
      atts |-> TableAtts] :
        ns \in Namespaces, rel \in TableNames \cup ignored_tables,
        kind \in {"r", "v", "", "S"}}

\* Relation names are unique in a schema.
DistinctRelations(rels) ==
    \A i, j \in 1..Len(rels) :
        (rels[i].nspname = rels[j].nspname /\ rels[i].relname = rels[j].relname) => i = j

\* Columns of a described table: names that differ in case only are different
\* columns; the type and the default go with the name, nullability is free.
ColumnNames == {"a", "A", "b"}

ColumnDefault(name) == IF name = "A" THEN "'new'" ELSE None
ColumnType(name) == IF name = "a" THEN "int4" ELSE IF name = "A" THEN "numeric" ELSE "varchar"

Layouts ==
    {atts \in SeqsUpTo([attname : ColumnNames, is_nullable : {"YES", "NO"}], MaxCols) :
        /\ atts # <<>>
        /\ \A i, j \in 1..Len(atts) : atts[i].attname = atts[j].attname => i = j}

LayoutAtts(layout) ==
    Map(layout, LAMBDA a :
        [attname |-> a.attname, is_nullable |-> a.is_nullable,
         column_default |-> ColumnDefault(a.attname), typ |-> ColumnType(a.attname)])

\* The schemas that may hold the described table.
DescribedNamespaces == <<"public", "tenant_a">>

\* Indexes on orders for the index rows: on one column, on two in either
\* order, on an expression; plain, unique, or primary and unique (a primary
\* key has no expression).
IndexedKeys == {<<1>>, <<2>>, <<1, 2>>, <<2, 1>>, <<0>>}

IndexMenu ==
    {ix \in [nspname : Namespaces, indkey : IndexedKeys,
             indisunique : BOOLEAN, indisprimary : BOOLEAN] :
        ix.indisprimary => (ix.indisunique /\ 0 \notin Range(ix.indkey))}

\* A table has one primary key.
IndexCatalogs ==
    {held \in SeqsUpTo(IndexMenu, MaxIndexes) :
        \A i, j \in 1..Len(held) :
            (held[i].indisprimary /\ held[j].indisprimary
                /\ held[i].nspname = held[j].nspname) => i = j}

HeldIndexes(held) ==
    [i \in 1..Len(held) |->
        [nspname |-> held[i].nspname, relname |-> "orders", indexname |-> "k" \o ToString(i),
         indkey |-> held[i].indkey, indoption |-> [k \in 1..Len(held[i].indkey) |-> 0],
         indisunique |-> held[i].indisunique, indisprimary |-> held[i].indisprimary,
         amname |-> "btree", reloptions |-> NoneT]]

----------------------------------------------------------------------------
(* Initial states *)

NoCall == [op |-> "none", table |-> None, out |-> Return(<<>>)]

InitScript(menu) ==
    /\ schema_name \in Namespaces
    /\ \E script \in Scripts(menu) :
          /\ pg_class = ScriptClasses(script)
          /\ pg_constraint = ScriptConstraints(script)
          /\ pg_index = ScriptIndexes(script)
    /\ description_bytes = FALSE
    /\ result = NoCall

Init == InitScript(ConstraintAndIndexMenu)

InitRelations == InitScript(RelationMenu)

InitIndexes ==
    /\ schema_name \in Namespaces
    /\ \E held \in IndexCatalogs :
          /\ pg_class = ScriptClasses(held)
          /\ pg_index = HeldIndexes(held)
    /\ pg_constraint = <<>>
    /\ description_bytes = FALSE
    /\ result = NoCall

InitTableList ==
    /\ schema_name \in Namespaces
    /\ pg_class \in {rels \in SeqsUpTo(ListedRelations, MaxRels) : DistinctRelations(rels)}
    /\ pg_constraint = <<>>
    /\ pg_index = <<>>
    /\ description_bytes = FALSE
    /\ result = NoCall

InitDescription ==
    /\ schema_name \in Namespaces
    /\ \E held \in [1..Len(DescribedNamespaces) -> Layouts \cup {<<>>}] :
          pg_class = Flatten([i \in 1..Len(DescribedNamespaces) |->
                        IF held[i] = <<>> THEN <<>>
                        ELSE <<[nspname |-> DescribedNamespaces[i], relname |-> "orders",
                                relkind |-> "r", reloptions |-> NoneT,
                                atts |-> LayoutAtts(held[i])]>>])
    /\ pg_constraint = <<>>
    /\ pg_index = <<>>
    /\ description_bytes \in BOOLEAN
    /\ result = NoCall

----------------------------------------------------------------------------
(* Actions *)

Call(op, table, out) ==
    /\ result' = [op |-> op, table |-> table, out |-> out]
    /\ UNCHANGED <<schema_name, pg_class, pg_constraint, pg_index, description_bytes>>

\* The tenant switch: another schema becomes the active one; what the last
\* call returned belongs to the schema it was made in.
SetSchema(ns) ==
    /\ ns # schema_name
    /\ schema_name' = ns
    /\ result' = NoCall
    /\ UNCHANGED <<pg_class, pg_constraint, pg_index, description_bytes>>

GetTableList == Call("get_table_list", None, get_table_list(Catalog, schema_name))

GetTableDescription(t) ==
    Call("get_table_description", t,
         get_table_description(Catalog, schema_name, t, description_bytes))

GetIndexes(t) == Call("get_indexes", t, get_indexes(Catalog, schema_name, t))

\* get_indexes on a cursor that accepts the statement and hands over the rows
\* its joins and its WHERE clause select.
GetIndexesFetched(t) ==
    Call("get_indexes", t, IndexesOf(Return(_get_indexes_rows(Catalog, schema_name, t))))

GetRelations(t) == Call("get_relations", t, get_relations(Catalog, schema_name, t))

GetConstraints(t) ==
    \E group_order \in Orderings(IndexGroups(Catalog, schema_name, t)) :
        Call("get_constraints", t, get_constraints(Catalog, schema_name, t, group_order))

GetKeyColumns(t) == Call("get_key_columns", t, get_key_columns(Catalog, schema_name, t))

Next ==
    \/ \E ns \in Namespaces : SetSchema(ns)
    \/ GetTableList
    \/ \E t \in TableNames : GetTableDescription(t)
    \/ \E t \in TableNames : GetIndexes(t)
    \/ \E t \in TableNames : GetRelations(t)
    \/ \E t \in TableNames : GetConstraints(t)
    \/ \E t \in TableNames : GetKeyColumns(t)

NextConstraints ==
    \/ \E ns \in Namespaces : SetSchema(ns)
    \/ \E t \in TableNames : GetConstraints(t)

NextRelations ==
    \/ \E ns \in Namespaces : SetSchema(ns)
    \/ \E t \in TableNames : GetRelations(t)
    \/ \E t \in TableNames : GetKeyColumns(t)

NextIndexes ==
    \/ \E ns \in Namespaces : SetSchema(ns)
    \/ \E t \in TableNames : GetIndexesFetched(t)

NextTableList ==
    \/ \E ns \in Namespaces : SetSchema(ns)
    \/ GetTableList

NextDescription ==
    \/ \E ns \in Namespaces : SetSchema(ns)
    \/ \E t \in TableNames : GetTableDescription(t)

\* Every operation, on the catalogs of constraints and indexes.
Spec == Init /\ [][Next]_vars
\* get_constraints alone, on the same catalogs.
SpecConstraints == Init /\ [][NextConstraints]_vars
\* get_relations and get_key_columns, on catalogs of foreign keys.
SpecRelations == InitRelations /\ [][NextRelations]_vars
\* The loop of get_indexes over the rows of the statement, on catalogs of indexes.
SpecIndexes == InitIndexes /\ [][NextIndexes]_vars
\* get_table_list, on catalogs of relations of every kind.
SpecTableList == InitTableList /\ [][NextTableList]_vars
\* get_table_description, on tables of every column layout.
SpecDescription == InitDescription /\ [][NextDescription]_vars

----------------------------------------------------------------------------
(* What the claims speak of *)

\* The last call was op and returned a value.
Returned(op) == result.op = op /\ result.out.raised = None

\* The tables and views of the catalog named rel in schema ns.
RelationsNamed(ns, rel) == {c \in Range(pg_class) : c.nspname = ns /\ c.relname = rel}

\* The name of column attnum of table (ns, rel).
ColumnName(ns, rel, attnum) ==
    (CHOOSE c \in RelationsNamed(ns, rel) : TRUE).atts[attnum].attname

\* The names of the columns a key array lists, in the order of the array.
KeyColumnNames(ns, rel, key) == [i \in 1..Len(key) |-> ColumnName(ns, rel, key[i])]

----------------------------------------------------------------------------
(* get_table_list: C3 *)

\* The rows of the active schema the listing's filter admits, in catalog
\* order, without the ignored names.
SurvivingRelations ==
    SelectSeq(pg_class, LAMBDA c :
        /\ c.nspname = schema_name
        /\ c.relkind \in {"r", "v", ""}
        /\ c.relname \notin ignored_tables)

\* C3: get_table_list returns no ignored name, returns every surviving row of
\* kind 'r' or 'v' in catalog order as Table ('t') or View ('v'), never returns
\* a descriptor of unset kind, and fails when a surviving row has another kind.
C3_KindNeverUnset ==
    result.op = "get_table_list" =>
        IF \E i \in 1..Len(SurvivingRelations) : SurvivingRelations[i].relkind \notin {"r", "v"}
        THEN result.out.raised # None
        ELSE /\ result.out.raised = None
             /\ result.out.value =
                    [i \in 1..Len(SurvivingRelations) |->
                        [name |-> SurvivingRelations[i].relname,
                         type |-> IF SurvivingRelations[i].relkind = "r" THEN "t" ELSE "v"]]
             /\ \A i \in 1..Len(result.out.value) :
                    /\ result.out.value[i].name \notin ignored_tables
                    /\ result.out.value[i].type \in {"t", "v"}

----------------------------------------------------------------------------
(* get_table_description: C4, C5 *)

\* The relation whose columns the driver describes for the last call.
Described == ResolveRelation(Catalog, schema_name, result.table)

\* The information_schema.columns rows of the table in the active schema.
InformationRows ==
    {a \in UNION {Range(c.atts) : c \in RelationsNamed(schema_name, result.table)} : TRUE}

InformationRow(name) == CHOOSE a \in InformationRows : a.attname = name

\* Every described column has its information_schema row, under its exact name.
AllColumnsKnown ==
    /\ Described # <<>>
    /\ \A i \in 1..Len(Described[1].atts) :
          \E a \in InformationRows : a.attname = Described[1].atts[i].attname

\* C4: when every described column has an information_schema row,
\* get_table_description returns one descriptor per described column, in the
\* description's order, the six driver fields taken from the description,
\* nullable true exactly when the row of that exact name says "YES", and the
\* default that of the row.
C4_DescriptionReconciled ==
    (result.op = "get_table_description" /\ AllColumnsKnown) =>
        /\ result.out.raised = None
        /\ Len(result.out.value) = Len(Described[1].atts)
        /\ \A i \in 1..Len(Described[1].atts) :
              LET att == Described[1].atts[i]
                  f == result.out.value[i]
                  d == TypeDescription(att.typ)
              IN /\ f.name = Text(att.attname)
                 /\ f.type_code = d[1]
                 /\ f.display_size = d[2]
                 /\ f.internal_size = d[3]
                 /\ f.precision = d[4]
                 /\ f.scale = d[5]
                 /\ f.null_ok = (InformationRow(att.attname).is_nullable = "YES")
                 /\ f.default = InformationRow(att.attname).column_default

\* A table with columns "a" and "A" of different nullability, described
\* through a driver that reports names as bytes.
C4_Witness ==
    /\ Returned("get_table_description")
    /\ description_bytes
    /\ Len(result.out.value) = 2
    /\ {result.out.value[1].name, result.out.value[2].name} = {Text("a"), Text("A")}
    /\ result.out.value[1].null_ok # result.out.value[2].null_ok

\* A described column has no information_schema row.
ColumnUnknown ==
    /\ Described # <<>>
    /\ \E i \in 1..Len(Described[1].atts) :
          \A a \in InformationRows : a.attname # Described[1].atts[i].attname

\* C5: when a described column has no information_schema row, the call fails
\* whole, and with an error of the distinct kind "inconsistent metadata", not
\* with the generic lookup failure.
C5_InconsistentMetadataError ==
    (result.op = "get_table_description" /\ ColumnUnknown) =>
        result.out.raised = "InconsistentMetadata"

\* What the code does there: the call fails whole with the lookup's KeyError.
C5_FailsWithKeyError ==
    (result.op = "get_table_description" /\ ColumnUnknown) =>
        result.out = Raise("KeyError")

----------------------------------------------------------------------------
(* get_relations: C7 *)

\* The foreign-key constraints of the table of the last call in the active schema.
ForeignKeys ==
    {con \in Range(pg_constraint) :
        con.contype = "f" /\ con.nspname = schema_name /\ con.relname = result.table}

FirstLocalColumn(con) == ColumnName(con.nspname, con.relname, con.conkey[1])
FirstReferencedColumn(con) == ColumnName(con.confnsp, con.confrel, con.confkey[1])

\* C7: get_relations returns a mapping whose keys are exactly the first local
\* key columns of the table's foreign keys in the active schema, each mapped to
\* (first referenced column, referenced table) of a foreign key with that first
\* local column; the later column pairs of a multi-column key add nothing.
C7_FirstColumnPairOnly ==
    result.op = "get_relations" =>
        /\ result.out.raised = None
        /\ DOMAIN result.out.value = {FirstLocalColumn(con) : con \in ForeignKeys}
        /\ \A k \in DOMAIN result.out.value :
              \E con \in ForeignKeys :
                  /\ FirstLocalColumn(con) = k
                  /\ result.out.value[k] = <<FirstReferencedColumn(con), con.confrel>>

\* A two-column foreign key (a, b) -> customers (b, a) alone on the table,
\* while another schema holds a foreign key on b for the table of that name:
\* the mapping is a -> (b, customers) and nothing else.
C7_Witness ==
    /\ Returned("get_relations")
    /\ \E con \in ForeignKeys : con.conkey = <<1, 2>> /\ con.confrel = "customers"
    /\ \E con \in Range(pg_constraint) :
          con.contype = "f" /\ con.nspname # schema_name /\ con.conkey = <<2>>
    /\ DOMAIN result.out.value = {"a"}
    /\ result.out.value["a"] = <<"b", "customers">>

----------------------------------------------------------------------------
(* get_constraints: C1, C8, C9, C10 *)

\* The rows the two statements of the last get_constraints call returned.
ConstraintRows == constraints_query(Catalog, schema_name, result.table).value
IndexRowNames == {g[1] : g \in IndexGroups(Catalog, schema_name, result.table)}

ConstraintFields ==
    {"columns", "primary_key", "unique", "foreign_key", "check", "index", "definition",
     "options"}

\* C8: the merged map has one entry for every name among the constraint rows
\* and the index rows; a name that is a constraint's has the entry made from
\* the constraint row alone (index false, the flags from the type code,
\* foreign_key None unless the type is 'f'), whether or not an index row has
\* the name too; an index row makes an entry only under a name no constraint has.
C8_ConstraintsTakePrecedence ==
    result.op = "get_constraints" =>
        /\ result.out.raised = None
        /\ DOMAIN result.out.value = {r[1] : r \in Range(ConstraintRows)} \cup IndexRowNames
        /\ \A i \in 1..Len(ConstraintRows) :
              LET r == ConstraintRows[i]
                  e == result.out.value[r[1]]
              IN /\ DOMAIN e = ConstraintFields
                 /\ e.index = FALSE
                 /\ e.columns = r[2]
                 /\ e.primary_key = (r[3] = "p")
                 /\ e.unique = (r[3] \in {"p", "u"})
                 /\ e.check = (r[3] = "c")
                 /\ e.foreign_key = (IF r[3] = "f" THEN <<r[4][1], r[4][3]>> ELSE NoneT)
                 /\ e.definition = NoneT
                 /\ e.options = r[5]
        /\ \A n \in DOMAIN result.out.value :
              result.out.value[n].index =>
                  /\ n \notin {r[1] : r \in Range(ConstraintRows)}
                  /\ n \in IndexRowNames

\* A unique constraint of public and an index of another schema share a name,
\* the index not unique and with a storage option of its own; the one entry
\* under the name is the constraint's.
C8_Witness ==
    /\ Returned("get_constraints")
    /\ \E i \in 1..Len(ConstraintRows) :
          /\ ConstraintRows[i][3] = "u"
          /\ \E idx \in Range(pg_index) :
                /\ idx.indexname = ConstraintRows[i][1]
                /\ idx.relname = result.table
                /\ ~idx.indisunique
                /\ idx.reloptions # NoneT
          /\ result.out.value[ConstraintRows[i][1]].unique
          /\ ~result.out.value[ConstraintRows[i][1]].index
          /\ result.out.value[ConstraintRows[i][1]].options = NoneT

\* The indexes named n on a table with the name of the last call's table.
IndexesNamed(n) ==
    {idx \in Range(pg_index) : idx.indexname = n /\ idx.relname = result.table}

ActiveConstraints ==
    {con \in Range(pg_constraint) :
        con.nspname = schema_name /\ con.relname = result.table}

\* C1: for a table of the active schema, when that is a tenant schema,
\* get_constraints returns for each primary-key and each foreign-key constraint
\* of the table a constraint-derived entry: its columns, primary_key for the
\* primary key, foreign_key = (referenced table, first referenced column) for
\* the foreign key.
C1_TenantConstraintsReported ==
    (result.op = "get_constraints" /\ schema_name # "public"
        /\ RelationsNamed(schema_name, result.table) # {}) =>
        /\ result.out.raised = None
        /\ \A con \in ActiveConstraints :
              con.contype \in {"p", "f"} =>
                  /\ con.conname \in DOMAIN result.out.value
                  /\ LET e == result.out.value[con.conname]
                     IN /\ ~e.index
                        /\ e.columns = KeyColumnNames(con.nspname, con.relname, con.conkey)
                        /\ e.primary_key = (con.contype = "p")
                        /\ e.foreign_key =
                              (IF con.contype = "f"
                               THEN <<con.confrel, FirstReferencedColumn(con)>>
                               ELSE NoneT)

\* C9: every entry of the merged map that is not an expression index lists the
\* key columns of a constraint or an index of that name, in the order the key
\* array declares them.
C9_ColumnsInDeclaredOrder ==
    Returned("get_constraints") =>
        \A n \in DOMAIN result.out.value :
            LET e == result.out.value[n]
            IN e.definition = NoneT =>
                \/ \E con \in Range(pg_constraint) :
                      /\ con.conname = n
                      /\ con.relname = result.table
                      /\ e.columns = KeyColumnNames(con.nspname, con.relname, con.conkey)
                \/ \E idx \in IndexesNamed(n) :
                      /\ 0 \notin Range(idx.indkey)
                      /\ e.columns = KeyColumnNames(idx.nspname, idx.relname, idx.indkey)

----------------------------------------------------------------------------
(* get_indexes: C6 *)

\* The indexes of the last call's table in the active schema whose key is one column.
SingleColumnIndexes ==
    {idx \in Range(pg_index) :
        /\ idx.nspname = schema_name
        /\ idx.relname = result.table
        /\ Len(idx.indkey) = 1
        /\ idx.indkey[1] # 0}

IndexedColumn(idx) == ColumnName(idx.nspname, idx.relname, idx.indkey[1])

\* What C6 says of a mapping: its keys are the columns of the single-column
\* indexes, and each flag is the OR of that flag over the column's indexes.
IndexSummaryOf(indexes, value) ==
    /\ DOMAIN value = {IndexedColumn(idx) : idx \in indexes}
    /\ \A c \in DOMAIN value :
          /\ value[c].primary_key =
                (\E idx \in indexes : IndexedColumn(idx) = c /\ idx.indisprimary)
          /\ value[c].unique =
                (\E idx \in indexes : IndexedColumn(idx) = c /\ idx.indisunique)

----------------------------------------------------------------------------
(* Namespace isolation: C2 *)

\* The catalog with the objects of one schema only.
Restrict(db, ns) ==
    [pg_class |-> SelectSeq(db.pg_class, LAMBDA c : c.nspname = ns),
     pg_constraint |-> SelectSeq(db.pg_constraint, LAMBDA con : con.nspname = ns),
     pg_index |-> SelectSeq(db.pg_index, LAMBDA idx : idx.nspname = ns)]

\* Two calls end alike: both fail, or both return the same value.
SameOutcome(x, y) ==
    IF x.raised # None \/ y.raised # None
    THEN x.raised # None /\ y.raised # None
    ELSE x.value = y.value

\* What the last call can return on a catalog db.
OutcomesOn(db) ==
    CASE result.op = "get_table_list" -> {get_table_list(db, schema_name)}
      [] result.op = "get_table_description" ->
            {get_table_description(db, schema_name, result.table, description_bytes)}
      [] result.op = "get_indexes" -> {get_indexes(db, schema_name, result.table)}
      [] result.op = "get_relations" -> {get_relations(db, schema_name, result.table)}
      [] result.op = "get_key_columns" -> {get_key_columns(db, schema_name, result.table)}
      [] result.op = "get_constraints" ->
            {get_constraints(db, schema_name, result.table, group_order) :
                group_order \in Orderings(IndexGroups(db, schema_name, result.table))}
      [] OTHER -> {result.out}

\* The one schema an operation is to describe: the fixed one for
\* get_constraints, the active one for the others.
OperationNamespace == IF result.op = "get_constraints" THEN "public" ELSE schema_name

\* C2: no operation's result depends on the objects of a schema other than
\* its own: the call ends as it would on the catalog that holds the objects
\* of that schema alone.
C2_NamespaceIsolation ==
    \E out \in OutcomesOn(Restrict(Catalog, OperationNamespace)) :
        SameOutcome(result.out, out)

\* The same, without get_constraints: the operations that filter on the
\* active schema are isolated.
IsolatedButForConstraints ==
    result.op # "get_constraints" => C2_NamespaceIsolation

====
